---- MODULE Spec2Model ----
(***************************************************************************)
(* Model of src/main.py: process_url = CrawlerAgent (URL normalisation and  *)
(* the fetch_content retry loop) followed by ParserAgent.parse (static      *)
(* extraction) and ParserAgent.parse_with_selenium (rendered extraction).   *)
(*                                                                          *)
(* Strings that the code takes apart (URLs, the Retry-After header) are     *)
(* sequences of tokens; labels the code only passes around are TLA+ strings.*)
(***************************************************************************)
EXTENDS Integers, Sequences, FiniteSets, TLC

VARIABLES
    pc,            \* position of the single process_url call
    url,           \* the argument of process_url (raw, as typed by the caller)
    crawlerUrl,    \* CrawlerAgent.url, set by __init__
    attempt,       \* loop variable of fetch_content (0-based)
    log,           \* outbound events in order: sleeps, GETs, browser navigations
    fetcherLog,    \* last message fetch_content passed to logger.error
    html_content,  \* value returned by fetch_content
    staticOutcome, \* how the static part of parse ended
    renderCalls,   \* number of calls of parse_with_selenium
    driver,        \* browser handle of parse_with_selenium
    page_source,   \* driver.page_source read by parse_with_selenium
    selRet,        \* pair returned by parse_with_selenium
    parseRet,      \* pair returned by parse
    result         \* pair returned by process_url

vars == <<pc, url, crawlerUrl, attempt, log, fetcherLog, html_content,
          staticOutcome, renderCalls, driver, page_source, selRet, parseRet,
          result>>

(***************************************************************************)
(* Bounds and program constants                                             *)
(***************************************************************************)
MaxNodes == 1        \* candidate nodes per document
MaxDocNodes == 2     \* the same, in the extraction-only specification

max_retries == 3     \* fetch_content(max_retries=3, ...)
delay == 2           \* fetch_content(..., delay=2)
MinTextLen == 20     \* len(text) > 20

None == "None"       \* Python's None

(***************************************************************************)
(* URLs as token sequences:  https://example.com/x  is                      *)
(*   <<"https:", "//", "example.com", "/", "x">>                            *)
(***************************************************************************)
Schemes == {"http:", "https:"}

\* url.startswith(('http://', 'https://'))
StartsWithHttp(u) == Len(u) >= 2 /\ u[1] \in Schemes /\ u[2] = "//"

\* a host with an opening bracket and no closing one: urlsplit raises ValueError
BadHosts == {"[::1"}

\* urlparse(u): scheme, netloc, path, and whether ValueError is raised
urlparse(u) ==
    LET hasScheme == Len(u) >= 1 /\ u[1] \in Schemes
        rest1 == IF hasScheme THEN Tail(u) ELSE u
        hasNet == Len(rest1) >= 1 /\ rest1[1] = "//"
        netloc == IF hasNet /\ Len(rest1) >= 2 /\ rest1[2] # "/"
                  THEN rest1[2] ELSE ""
        rest2 == IF ~hasNet THEN rest1
                 ELSE IF netloc = "" THEN Tail(rest1)
                 ELSE Tail(Tail(rest1))
    IN  [scheme |-> IF hasScheme THEN u[1] ELSE "",
         netloc |-> netloc,
         path   |-> rest2,
         error  |-> netloc \in BadHosts]

\* ParseResult.geturl() / urlunparse
geturl(p) ==
    (IF p.scheme = "" THEN <<>> ELSE <<p.scheme>>)
    \o (IF p.netloc = "" THEN <<>>
        ELSE <<"//", p.netloc>>
             \o (IF p.path # <<>> /\ p.path[1] # "/" THEN <<"/">> ELSE <<>>))
    \o p.path

\* CrawlerAgent._normalize_url: the normalised URL, or ValueError
_normalize_url(u) ==
    LET u2 == IF ~StartsWithHttp(u) THEN <<"https:", "//">> \o u ELSE u
        parsed == urlparse(u2)
    IN  [error |-> parsed.error, value |-> geturl(parsed)]

\* index of the last "/" token of a path, 0 when there is none
LastSlash(path) ==
    IF \E i \in 1..Len(path) : path[i] = "/"
    THEN CHOOSE i \in 1..Len(path) :
             path[i] = "/" /\ \A j \in (i+1)..Len(path) : path[j] # "/"
    ELSE 0

\* urllib.parse.urljoin(base, href): the joined URL, or ValueError
urljoin(base, href) ==
    LET b == urlparse(base)
        h == urlparse(href)
        mergedPath == IF h.path # <<>> /\ h.path[1] = "/" THEN h.path
                      ELSE SubSeq(b.path, 1, LastSlash(b.path)) \o h.path
        joined == IF base = <<>> THEN href
                  ELSE IF href = <<>> THEN base
                  ELSE IF h.scheme # "" /\ h.scheme # b.scheme THEN href
                  ELSE IF h.netloc # ""
                       THEN geturl([h EXCEPT !.scheme = b.scheme])
                  ELSE geturl([scheme |-> b.scheme, netloc |-> b.netloc,
                               path |-> mergedPath, error |-> FALSE])
    IN  [error |-> (base # <<>> /\ href # <<>> /\ (b.error \/ h.error)),
         value |-> joined]

\* an absolute URL names its scheme
IsAbsolute(u) == Len(u) >= 1 /\ u[1] \in Schemes

(***************************************************************************)
(* The Retry-After header: absent, or a string given character by character *)
(***************************************************************************)
NoHeader == <<>>
Digits == {"0", "1", "2", "3", "4", "5", "6", "7", "8", "9"}
DigitVal(c) == CASE c = "0" -> 0 [] c = "1" -> 1 [] c = "2" -> 2 [] c = "3" -> 3
                 [] c = "4" -> 4 [] c = "5" -> 5 [] c = "6" -> 6 [] c = "7" -> 7
                 [] c = "8" -> 8 [] c = "9" -> 9

RECURSIVE DigitsVal(_)
DigitsVal(s) == IF s = <<>> THEN 0
                ELSE 10 * DigitsVal(SubSeq(s, 1, Len(s) - 1)) + DigitVal(s[Len(s)])

\* int(s) of a string: optional sign and digits, anything else is ValueError
int(s) ==
    LET signed == Len(s) >= 1 /\ s[1] \in {"-", "+"}
        body == IF signed THEN Tail(s) ELSE s
        ok == body # <<>> /\ \A i \in 1..Len(body) : body[i] \in Digits
    IN  [error |-> ~ok,
         value |-> IF ~ok THEN 0
                   ELSE IF signed /\ s[1] = "-" THEN 0 - DigitsVal(body)
                   ELSE DigitsVal(body)]

\* Retry-After values a server may send with a 429
RetryAfterValues == {NoHeader, <<"7">>, <<"-", "1">>, <<"W", "e", "d">>}

\* wait_time = int(response.headers.get('Retry-After', delay * (attempt + 1)))
wait_time(hdr, k) ==
    IF hdr = NoHeader THEN [error |-> FALSE, value |-> delay * (k + 1)]
    ELSE int(hdr)

(***************************************************************************)
(* Documents.  A document is its candidate nodes (p, h1..h6, a) in document *)
(* order.  A node records its tag, its text as pad whitespace characters    *)
(* around core other characters, its href attribute, and the containers     *)
(* around it: the first <article>, the first <main>, and the content-class  *)
(* <div>s (numbered in document order).                                     *)
(***************************************************************************)
Node(name, pad, core, hasHref, href, regions) ==
    [name |-> name, pad |-> pad, core |-> core, hasHref |-> hasHref,
     href |-> href, regions |-> regions]

\* the content-class <div>s of a document, in document order
ContentDivs == <<"div1", "div2">>

HrefAbout    == <<"/", "about">>
HrefSibling  == <<"about">>
HrefOther    == <<"https:", "//", "other.org", "/", "y">>
HrefBad      == <<"http:", "//", "[::1">>

NodePool ==
    { Node("p",  0, 21, FALSE, <<>>,        {}),
      Node("p",  2, 20, FALSE, <<>>,        {"article"}),
      Node("h1", 0, 30, FALSE, <<>>,        {"article", "main"}),
      Node("a",  0, 2,  TRUE,  HrefAbout,   {}),
      Node("a",  0, 2,  TRUE,  HrefSibling, {"main"}),
      Node("a",  0, 4,  TRUE,  HrefOther,   {"div1"}),
      Node("p",  1, 25, FALSE, <<>>,        {"div2"}),
      Node("a",  0, 4,  FALSE, <<>>,        {}),
      Node("a",  0, 4,  TRUE,  <<>>,        {}),
      Node("a",  0, 4,  TRUE,  HrefBad,     {}) }

RECURSIVE SeqsUpTo(_, _)
SeqsUpTo(S, n) ==
    IF n = 0 THEN {<<>>}
    ELSE LET shorter == SeqsUpTo(S, n - 1)
         IN  shorter \cup {Append(s, x) : s \in shorter, x \in S}

\* a response body: its length in characters, whether BeautifulSoup rejects
\* the markup, and its candidate nodes
Body(chars, rejected, nodes) ==
    [isNone |-> FALSE, chars |-> chars, rejected |-> rejected, nodes |-> nodes]

NoneBody == [isNone |-> TRUE, chars |-> 0, rejected |-> FALSE, nodes |-> <<>>]
EmptyBody == Body(0, FALSE, <<>>)
RejectedBody == Body(1, TRUE, <<>>)

\* the positions of the candidate nodes inside a container
RegionIdx(ns, r) == {i \in DOMAIN ns : r \in ns[i].regions}

\* node sequences an HTML tree can yield: the candidates inside one element
\* are consecutive in document order, two elements are nested or disjoint,
\* and a content-class <div> numbered later starts later
WellFormed(ns) ==
    LET Regions == {"article", "main"}
                   \cup {ContentDivs[d] : d \in DOMAIN ContentDivs}
        I(r) == RegionIdx(ns, r)
    IN  /\ \A r \in Regions : \A i, j \in I(r) :
               \A k \in DOMAIN ns : i < k /\ k < j => k \in I(r)
        /\ \A r, t \in Regions :
               \/ I(r) \cap I(t) = {}
               \/ I(r) \subseteq I(t)
               \/ I(t) \subseteq I(r)
        /\ \A d, e \in DOMAIN ContentDivs :
               d < e =>
                   \/ I(ContentDivs[e]) \subseteq I(ContentDivs[d])
                   \/ \A i \in I(ContentDivs[d]), j \in I(ContentDivs[e]) : i < j

Documents(n) == {ns \in SeqsUpTo(NodePool, n) : WellFormed(ns)}

Bodies ==
    {EmptyBody, RejectedBody}
    \cup {Body(1 + Len(ns), FALSE, ns) : ns \in Documents(MaxNodes)}

\* the bodies of the extraction-only specification
DocBodies ==
    {EmptyBody, RejectedBody}
    \cup {Body(1 + Len(ns), FALSE, ns) : ns \in Documents(MaxDocNodes)}

\* Python truthiness of html_content: neither None nor ''
Truthy(body) == ~body.isNone /\ body.chars > 0

(***************************************************************************)
(* Extraction                                                               *)
(***************************************************************************)
RECURSIVE Select(_, _)
\* container.find_all([...]): the nodes inside the container, in document order
Select(nodes, region) ==
    IF nodes = <<>> THEN <<>>
    ELSE (IF region \in Head(nodes).regions THEN <<Head(nodes)>> ELSE <<>>)
         \o Select(Tail(nodes), region)

RECURSIVE DivPass(_, _)
\* for div in content_divs: content.extend(div.find_all(...))
DivPass(nodes, divs) ==
    IF divs = <<>> THEN <<>>
    ELSE Select(nodes, Head(divs)) \o DivPass(nodes, Tail(divs))

\* TieredContent with the main pass run before the article pass
TieredContent_MainFirst(nodes) ==
    Select(nodes, "main") \o Select(nodes, "article") \o DivPass(nodes, ContentDivs)

\* passes 1-3 of parse: article, main, content-class divs
TieredContent(nodes) ==
    Select(nodes, "article") \o Select(nodes, "main") \o DivPass(nodes, ContentDivs)

\* StaticContent with the whole-document pass run unconditionally
StaticContent_AlwaysWholeDocument(nodes) == nodes

\* the content list of parse after the fallback pass
StaticContent(nodes) ==
    IF TieredContent(nodes) = <<>> THEN nodes ELSE TieredContent(nodes)

LinkEntry(text, u) == [kind |-> "link", text |-> text, url |-> u]
TextEntry(text) == [kind |-> "text", text |-> text, url |-> <<>>]

\* get_text() without strip=True: the surrounding whitespace is kept
get_text_Untrimmed(n) == n.pad + n.core

\* get_text(strip=True): the text without the surrounding whitespace
get_text(n) == n.core

RECURSIVE Filter(_, _)
\* the clean-and-filter loop of parse: the entries, or the exception urljoin
\* raised
Filter(content, base) ==
    IF content = <<>> THEN [error |-> FALSE, entries |-> <<>>]
    ELSE LET elem == Head(content)
             rest == Filter(Tail(content), base)
             joined == urljoin(base, elem.href)
         IN  IF elem.name = "a"
             THEN IF elem.hasHref /\ elem.href # <<>>
                  THEN [error |-> joined.error \/ rest.error,
                        entries |-> <<LinkEntry(get_text(elem), joined.value)>>
                                    \o rest.entries]
                  ELSE rest
             ELSE IF get_text(elem) > MinTextLen
                  THEN [error |-> rest.error,
                        entries |-> <<TextEntry(get_text(elem))>> \o rest.entries]
                  ELSE rest

\* content = soup.find_all([...]) of parse_with_selenium: every candidate node
SeleniumContent(nodes) == nodes

RECURSIVE SeleniumFilter_KeepsTwenty(_, _)
\* SeleniumFilter with the length test written >= 20
SeleniumFilter_KeepsTwenty(content, base) ==
    IF content = <<>> THEN [error |-> FALSE, entries |-> <<>>]
    ELSE LET elem == Head(content)
             rest == SeleniumFilter_KeepsTwenty(Tail(content), base)
             full_url == urljoin(base, elem.href)
             text == get_text(elem)
         IN  IF elem.name = "a"
             THEN IF elem.hasHref /\ elem.href # <<>>
                  THEN [error |-> full_url.error \/ rest.error,
                        entries |-> <<LinkEntry(text, full_url.value)>>
                                    \o rest.entries]
                  ELSE rest
             ELSE IF text >= MinTextLen
                  THEN [error |-> rest.error,
                        entries |-> <<TextEntry(text)>> \o rest.entries]
                  ELSE rest

RECURSIVE SeleniumFilter(_, _)
\* the filter loop of parse_with_selenium: the entries, or the exception
\* urljoin raised
SeleniumFilter(content, base) ==
    IF content = <<>> THEN [error |-> FALSE, entries |-> <<>>]
    ELSE LET elem == Head(content)
             rest == SeleniumFilter(Tail(content), base)
             full_url == urljoin(base, elem.href)
             text == get_text(elem)
         IN  IF elem.name = "a"
             THEN IF elem.hasHref /\ elem.href # <<>>
                  THEN [error |-> full_url.error \/ rest.error,
                        entries |-> <<LinkEntry(text, full_url.value)>>
                                    \o rest.entries]
                  ELSE rest
             ELSE IF text > MinTextLen
                  THEN [error |-> rest.error,
                        entries |-> <<TextEntry(text)>> \o rest.entries]
                  ELSE rest

\* (parsed_data, method) pairs; entries is a list or None
Pair(absent, entries, method) ==
    [set |-> TRUE, absent |-> absent, entries |-> entries, method |-> method]
NoPair == [set |-> FALSE, absent |-> FALSE, entries |-> <<>>, method |-> ""]

(***************************************************************************)
(* Outbound events                                                          *)
(***************************************************************************)
Ev(type, k, target, verify, outcome, hdr, dur) ==
    [type |-> type, attempt |-> k, target |-> target, verify |-> verify,
     outcome |-> outcome, retryAfter |-> hdr, dur |-> dur]

\* time.sleep(dur) during attempt k (1-based)
SleepEv(k, dur) == Ev("sleep", k, <<>>, TRUE, "", NoHeader, dur)
\* session.get(target, verify=verify) during attempt k, how it ended, and the
\* Retry-After header of the response
GetEv(k, target, verify, outcome, hdr) ==
    Ev("get", k, target, verify, outcome, hdr, 0)
\* driver.get(target), and how it ended
NavEv(target, outcome) == Ev("nav", 0, target, TRUE, outcome, NoHeader, 0)

\* status codes of the else branch of fetch_content
OtherStatuses == {"500"}
\* status codes other than 200 a server may answer the unverified GET with
Non200 == {"403", "429", "500"}

\* URLs a caller may pass to process_url
InputUrls ==
    { <<"https:", "//", "example.com", "/", "x">>,
      <<"example.com", "/", "x">>,
      <<"example.com">>,
      <<"[::1">> }

Init ==
    /\ pc = "start"
    /\ url \in InputUrls
    /\ crawlerUrl = <<>>
    /\ attempt = 0
    /\ log = <<>>
    /\ fetcherLog = ""
    /\ html_content = NoneBody
    /\ staticOutcome = "none"
    /\ renderCalls = 0
    /\ driver = "none"
    /\ page_source = NoneBody
    /\ selRet = NoPair
    /\ parseRet = NoPair
    /\ result = NoPair

(***************************************************************************)
(* CrawlerAgent                                                             *)
(***************************************************************************)
parserVars ==
    <<staticOutcome, renderCalls, driver, page_source, selRet, parseRet, result>>

\* crawler = CrawlerAgent(url): a ValueError of urlparse leaves process_url
Construct ==
    /\ pc = "start"
    /\ LET n == _normalize_url(url)
       IN  IF n.error
           THEN pc' = "raised" /\ UNCHANGED crawlerUrl
           ELSE pc' = "attempt" /\ crawlerUrl' = n.value
    /\ UNCHANGED <<url, attempt, log, fetcherLog, html_content>>
    /\ UNCHANGED parserVars

InLoop == pc = "attempt" /\ attempt < max_retries

\* AfterGetHdr without the time.sleep(delay) before the request
AfterGetHdr_NoSleep(outcome, hdr) ==
    Append(log, GetEv(attempt + 1, crawlerUrl, TRUE, outcome, hdr))

\* the log after time.sleep(delay) and the verified GET of this attempt
AfterGetHdr(outcome, hdr) ==
    log \o <<SleepEv(attempt + 1, delay),
             GetEv(attempt + 1, crawlerUrl, TRUE, outcome, hdr)>>

AfterGet(outcome) == AfterGetHdr(outcome, NoHeader)

\* fetch_content returns value
FetchReturn(value) ==
    /\ html_content' = value
    /\ pc' = "fetched"
    /\ UNCHANGED attempt

\* NextAttempt as a retry that does not use up one of the max_retries slots
NextAttempt_NoSlot ==
    /\ attempt' = attempt
    /\ pc' = "attempt"
    /\ UNCHANGED html_content

\* the loop goes on with the next attempt
NextAttempt ==
    /\ attempt' = attempt + 1
    /\ pc' = "attempt"
    /\ UNCHANGED html_content

\* status 200: return response.text
Get200(body) ==
    /\ InLoop
    /\ log' = AfterGet("200")
    /\ FetchReturn(body)
    /\ UNCHANGED <<url, crawlerUrl, fetcherLog>>
    /\ UNCHANGED parserVars

\* Get403 with the 403 branch falling through to the next attempt
Get403_Retries ==
    /\ InLoop
    /\ log' = AfterGet("403")
    /\ fetcherLog' = "Access forbidden - site may have anti-bot protection"
    /\ NextAttempt
    /\ UNCHANGED <<url, crawlerUrl>>
    /\ UNCHANGED parserVars

\* status 403: return None
Get403 ==
    /\ InLoop
    /\ log' = AfterGet("403")
    /\ fetcherLog' = "Access forbidden - site may have anti-bot protection"
    /\ FetchReturn(NoneBody)
    /\ UNCHANGED <<url, crawlerUrl>>
    /\ UNCHANGED parserVars

\* status 429: sleep wait_time and continue; a ValueError of int() or of
\* time.sleep() is caught by "except Exception", which returns None
Get429(hdr) ==
    /\ InLoop
    /\ LET w == wait_time(hdr, attempt)
       IN  IF w.error \/ w.value < 0
           THEN /\ log' = AfterGetHdr("429", hdr)
                /\ fetcherLog' = "Unexpected error"
                /\ FetchReturn(NoneBody)
           ELSE /\ log' = AfterGetHdr("429", hdr)
                            \o <<SleepEv(attempt + 1, w.value)>>
                /\ NextAttempt
                /\ UNCHANGED fetcherLog
    /\ UNCHANGED <<url, crawlerUrl>>
    /\ UNCHANGED parserVars

\* any other status: log it, next attempt
GetOtherStatus(status) ==
    /\ InLoop
    /\ log' = AfterGet(status)
    /\ fetcherLog' = "Failed to fetch content: HTTP"
    /\ NextAttempt
    /\ UNCHANGED <<url, crawlerUrl>>
    /\ UNCHANGED parserVars

\* requests.exceptions.SSLError: the handler issues the unverified GET
GetSSLError ==
    /\ InLoop
    /\ log' = AfterGet("SSLError")
    /\ pc' = "ssl_retry"
    /\ UNCHANGED <<url, crawlerUrl, attempt, fetcherLog, html_content>>
    /\ UNCHANGED parserVars

\* AfterSslGet with verify=False forgotten
AfterSslGet_Verified(outcome) ==
    Append(log, GetEv(attempt + 1, crawlerUrl, TRUE, outcome, NoHeader))

\* the log after the GET with verify=False
AfterSslGet(outcome) ==
    Append(log, GetEv(attempt + 1, crawlerUrl, FALSE, outcome, NoHeader))

\* unverified GET, status 200: return response.text
SslGet200(body) ==
    /\ pc = "ssl_retry"
    /\ log' = AfterSslGet("200")
    /\ FetchReturn(body)
    /\ UNCHANGED <<url, crawlerUrl, fetcherLog>>
    /\ UNCHANGED parserVars

\* unverified GET, any other status: nothing is done, next attempt
SslGetNon200(status) ==
    /\ pc = "ssl_retry"
    /\ log' = AfterSslGet(status)
    /\ NextAttempt
    /\ UNCHANGED <<url, crawlerUrl, fetcherLog>>
    /\ UNCHANGED parserVars

\* SslGetFail treating the failure of the unverified GET as fatal
SslGetFail_Aborts ==
    /\ pc = "ssl_retry"
    /\ log' = Append(log, GetEv(attempt + 1, crawlerUrl, FALSE, "Exception",
                                NoHeader))
    /\ fetcherLog' = "Secondary request failed"
    /\ html_content' = NoneBody
    /\ pc' = "fetched"
    /\ UNCHANGED <<url, crawlerUrl, attempt>>
    /\ UNCHANGED parserVars

\* unverified GET raises: logged, next attempt
SslGetFail ==
    /\ pc = "ssl_retry"
    /\ log' = AfterSslGet("Exception")
    /\ fetcherLog' = "Secondary request failed"
    /\ NextAttempt
    /\ UNCHANGED <<url, crawlerUrl>>
    /\ UNCHANGED parserVars

\* GetRequestException with a constant back-off of delay
GetRequestException_FixedDelay ==
    /\ InLoop
    /\ log' = log \o <<SleepEv(attempt + 1, delay),
                        GetEv(attempt + 1, crawlerUrl, TRUE, "RequestException",
                              NoHeader),
                        SleepEv(attempt + 1, delay)>>
    /\ fetcherLog' = "Request failed"
    /\ attempt' = attempt + 1
    /\ pc' = "attempt"
    /\ UNCHANGED <<url, crawlerUrl, html_content>>
    /\ UNCHANGED parserVars

\* requests.exceptions.RequestException: sleep delay * (attempt + 1)
GetRequestException ==
    /\ InLoop
    /\ log' = AfterGet("RequestException")
                \o <<SleepEv(attempt + 1, delay * (attempt + 1))>>
    /\ fetcherLog' = "Request failed"
    /\ NextAttempt
    /\ UNCHANGED <<url, crawlerUrl>>
    /\ UNCHANGED parserVars

\* any other exception: return None
GetUnexpected ==
    /\ InLoop
    /\ log' = AfterGet("Exception")
    /\ fetcherLog' = "Unexpected error"
    /\ FetchReturn(NoneBody)
    /\ UNCHANGED <<url, crawlerUrl>>
    /\ UNCHANGED parserVars

\* the for loop ends: return None
Exhausted ==
    /\ pc = "attempt"
    /\ attempt = max_retries
    /\ fetcherLog' = "Failed to fetch content after 3 attempts"
    /\ FetchReturn(NoneBody)
    /\ UNCHANGED <<url, crawlerUrl, log>>
    /\ UNCHANGED parserVars

(***************************************************************************)
(* process_url and ParserAgent                                              *)
(***************************************************************************)
fetchVars == <<url, crawlerUrl, attempt, fetcherLog, html_content>>

\* process_url, else branch of "if html_content"
ProcessFetchFailed ==
    /\ pc = "fetched"
    /\ ~Truthy(html_content)
    /\ result' = Pair(TRUE, <<>>, "Failed to fetch content")
    /\ pc' = "done"
    /\ UNCHANGED fetchVars
    /\ UNCHANGED <<log, staticOutcome, renderCalls, driver,
                   page_source, selRet, parseRet>>

\* parse() leaves through "except Exception" with this message
ParseFault(msg) ==
    /\ parseRet' = Pair(FALSE, <<>>, msg)
    /\ pc' = "parse_ret"

\* Parse with the Selenium fallback left out: an empty list is returned as is
Parse_NoFallback ==
    /\ pc = "fetched"
    /\ Truthy(html_content)
    /\ LET f == Filter(StaticContent(html_content.nodes), url)
       IN  IF html_content.rejected
           THEN /\ staticOutcome' = "fault"
                /\ ParseFault("Parsing error: markup rejected")
           ELSE IF f.error
           THEN /\ staticOutcome' = "fault"
                /\ ParseFault("Parsing error: Invalid IPv6 URL")
           ELSE /\ staticOutcome' = IF f.entries = <<>> THEN "empty" ELSE "entries"
                /\ parseRet' = Pair(FALSE, f.entries, "Parsed with BeautifulSoup")
                /\ pc' = "parse_ret"
    /\ UNCHANGED fetchVars
    /\ UNCHANGED <<log, renderCalls, driver, page_source, selRet, result>>

\* ParserAgent(html_content, url).parse() up to its first return or to the
\* call of parse_with_selenium; the parser's base URL is the argument of
\* process_url
\* (the "if not self.html_content" return of parse is never taken: process_url
\* calls parse with a truthy html_content only)
Parse ==
    /\ pc = "fetched"
    /\ Truthy(html_content)
    /\ LET f == Filter(StaticContent(html_content.nodes), url)
       IN  IF html_content.rejected
           THEN /\ staticOutcome' = "fault"
                /\ ParseFault("Parsing error: markup rejected")
                /\ UNCHANGED renderCalls
           ELSE IF f.error
           THEN /\ staticOutcome' = "fault"
                /\ ParseFault("Parsing error: Invalid IPv6 URL")
                /\ UNCHANGED renderCalls
           ELSE IF f.entries = <<>>
           THEN /\ staticOutcome' = "empty"
                /\ renderCalls' = renderCalls + 1
                /\ pc' = "selenium_launch"
                /\ UNCHANGED parseRet
           ELSE /\ staticOutcome' = "entries"
                /\ parseRet' = Pair(FALSE, f.entries, "Parsed with BeautifulSoup")
                /\ pc' = "parse_ret"
                /\ UNCHANGED renderCalls
    /\ UNCHANGED fetchVars
    /\ UNCHANGED <<log, driver, page_source, selRet, result>>

\* driver = webdriver.Chrome(...) succeeds
SeleniumLaunch ==
    /\ pc = "selenium_launch"
    /\ driver' = "open"
    /\ pc' = "selenium_get"
    /\ UNCHANGED fetchVars
    /\ UNCHANGED <<log, staticOutcome, renderCalls, page_source, selRet, parseRet,
                   result>>

\* webdriver.Chrome(...) raises outside the try of parse_with_selenium: the
\* exception is caught by parse
SeleniumLaunchFail ==
    /\ pc = "selenium_launch"
    /\ ParseFault("Parsing error: chromedriver")
    /\ UNCHANGED fetchVars
    /\ UNCHANGED <<log, staticOutcome, renderCalls, driver,
                   page_source, selRet, result>>

\* parse_with_selenium leaves its try through "except Exception"
SeleniumFault(msg) ==
    /\ selRet' = Pair(FALSE, <<>>, msg)
    /\ pc' = "selenium_finally"

\* driver.get(self.url) returns
SeleniumGet ==
    /\ pc = "selenium_get"
    /\ log' = Append(log, NavEv(url, "ok"))
    /\ pc' = "selenium_wait"
    /\ UNCHANGED fetchVars
    /\ UNCHANGED <<staticOutcome, renderCalls, driver, page_source,
                   selRet, parseRet, result>>

\* driver.get(self.url) raises
SeleniumGetFail ==
    /\ pc = "selenium_get"
    /\ log' = Append(log, NavEv(url, "Exception"))
    /\ SeleniumFault("Selenium parsing error: navigation")
    /\ UNCHANGED fetchVars
    /\ UNCHANGED <<staticOutcome, renderCalls, driver,
                   page_source, parseRet, result>>

\* WebDriverWait(driver, 10).until(...) returns, then time.sleep(5)
SeleniumWait ==
    /\ pc = "selenium_wait"
    /\ pc' = "selenium_extract"
    /\ UNCHANGED fetchVars
    /\ UNCHANGED <<log, staticOutcome, renderCalls, driver,
                   page_source, selRet, parseRet, result>>

\* WebDriverWait(...).until(...) raises TimeoutException
SeleniumWaitTimeout ==
    /\ pc = "selenium_wait"
    /\ SeleniumFault("Selenium parsing error: timeout")
    /\ UNCHANGED fetchVars
    /\ UNCHANGED <<log, staticOutcome, renderCalls, driver,
                   page_source, parseRet, result>>

\* the try body of parse_with_selenium from page_source on
SeleniumExtract(page) ==
    /\ pc = "selenium_extract"
    /\ page_source' = page
    /\ LET f == SeleniumFilter(SeleniumContent(page.nodes), url)
       IN  IF page.rejected
           THEN SeleniumFault("Selenium parsing error: markup rejected")
           ELSE IF f.error
           THEN SeleniumFault("Selenium parsing error: Invalid IPv6 URL")
           ELSE /\ selRet' = Pair(FALSE, f.entries, "Parsed with Selenium")
                /\ pc' = "selenium_finally"
    /\ UNCHANGED fetchVars
    /\ UNCHANGED <<log, staticOutcome, renderCalls, driver, parseRet, result>>

\* SeleniumQuit releasing the browser on the success path only
SeleniumQuit_OnlyOnSuccess ==
    /\ pc = "selenium_finally"
    /\ driver' = IF selRet.method = "Parsed with Selenium" THEN "quit" ELSE driver
    /\ page_source' = NoneBody
    /\ parseRet' = selRet
    /\ pc' = "parse_ret"
    /\ UNCHANGED fetchVars
    /\ UNCHANGED <<log, staticOutcome, renderCalls, selRet, result>>

\* finally: driver.quit(); parse_with_selenium returns (its locals are gone)
\* and parse returns the pair it got
SeleniumQuit ==
    /\ pc = "selenium_finally"
    /\ driver' = "quit"
    /\ page_source' = NoneBody
    /\ parseRet' = selRet
    /\ pc' = "parse_ret"
    /\ UNCHANGED fetchVars
    /\ UNCHANGED <<log, staticOutcome, renderCalls, selRet, result>>

\* ProcessReturn without the "if parsed_data" test
ProcessReturn_PassThrough ==
    /\ pc = "parse_ret"
    /\ result' = parseRet
    /\ pc' = "done"
    /\ UNCHANGED fetchVars
    /\ UNCHANGED <<log, staticOutcome, renderCalls, driver,
                   page_source, selRet, parseRet>>

\* process_url, "if parsed_data" after parser.parse()
ProcessReturn ==
    /\ pc = "parse_ret"
    /\ result' = IF parseRet.entries # <<>> THEN parseRet
                 ELSE Pair(TRUE, <<>>, "No content could be parsed from the page")
    /\ pc' = "done"
    /\ UNCHANGED fetchVars
    /\ UNCHANGED <<log, staticOutcome, renderCalls, driver,
                   page_source, selRet, parseRet>>

Next ==
    \/ Construct
    \/ \E body \in Bodies : Get200(body)
    \/ Get403
    \/ \E hdr \in RetryAfterValues : Get429(hdr)
    \/ \E status \in OtherStatuses : GetOtherStatus(status)
    \/ GetSSLError
    \/ \E body \in Bodies : SslGet200(body)
    \/ \E status \in Non200 : SslGetNon200(status)
    \/ SslGetFail
    \/ GetRequestException
    \/ GetUnexpected
    \/ Exhausted
    \/ ProcessFetchFailed
    \/ Parse
    \/ SeleniumLaunch
    \/ SeleniumLaunchFail
    \/ SeleniumGet
    \/ SeleniumGetFail
    \/ SeleniumWait
    \/ SeleniumWaitTimeout
    \/ \E page \in Bodies : SeleniumExtract(page)
    \/ SeleniumQuit
    \/ ProcessReturn

Spec == Init /\ [][Next]_vars

(***************************************************************************)
(* Extraction only: process_url from the return of fetch_content, for the   *)
(* larger documents of DocBodies.  The initial states are the states of     *)
(* Spec right after a first attempt answered 200.                           *)
(***************************************************************************)
InitExtract ==
    /\ pc = "fetched"
    /\ url \in {u \in InputUrls : ~_normalize_url(u).error}
    /\ crawlerUrl = _normalize_url(url).value
    /\ attempt = 0
    /\ log = <<SleepEv(1, delay), GetEv(1, crawlerUrl, TRUE, "200", NoHeader)>>
    /\ fetcherLog = ""
    /\ html_content \in DocBodies
    /\ staticOutcome = "none"
    /\ renderCalls = 0
    /\ driver = "none"
    /\ page_source = NoneBody
    /\ selRet = NoPair
    /\ parseRet = NoPair
    /\ result = NoPair

NextExtract ==
    \/ ProcessFetchFailed
    \/ Parse
    \/ SeleniumLaunch
    \/ SeleniumLaunchFail
    \/ SeleniumGet
    \/ SeleniumGetFail
    \/ SeleniumWait
    \/ SeleniumWaitTimeout
    \/ \E page \in DocBodies : SeleniumExtract(page)
    \/ SeleniumQuit
    \/ ProcessReturn

SpecExtract == InitExtract /\ [][NextExtract]_vars

(***************************************************************************)
(* Properties                                                               *)
(***************************************************************************)
IsGet(i) == log[i].type = "get"
IsVerifiedGet(i) == IsGet(i) /\ log[i].verify
FetchReturned == pc \notin {"start", "attempt", "ssl_retry", "raised"}
Forbidden == "Access forbidden - site may have anti-bot protection"
ExhaustedMsg == "Failed to fetch content after 3 attempts"
SuccessLabels == {"Parsed with BeautifulSoup", "Parsed with Selenium"}

\* C1 (as amended): if the verified GET of any attempt receives 403,
\* fetch_content returns None and issues no further GET.
C1_Verified403Ends ==
    \A i \in DOMAIN log :
        (IsVerifiedGet(i) /\ log[i].outcome = "403") =>
            /\ FetchReturned
            /\ html_content = NoneBody
            /\ \A j \in (i + 1)..Len(log) : ~IsGet(j)

\* a 403 on the last attempt, after two attempts that went on, ended the call
C1_Witness ==
    /\ pc = "done"
    /\ \E i \in DOMAIN log :
           IsVerifiedGet(i) /\ log[i].outcome = "403" /\ log[i].attempt = max_retries

\* C1 (as stated): a 403 received by any GET, the unverified one included,
\* ends the fetch with None and no further GET.
C1_Any403Ends ==
    \A i \in DOMAIN log :
        (IsGet(i) /\ log[i].outcome = "403") =>
            /\ FetchReturned
            /\ html_content = NoneBody
            /\ \A j \in (i + 1)..Len(log) : ~IsGet(j)

\* C2: a 429 on the verified GET of attempt k never aborts the fetch: a sleep
\* follows it at once (Retry-After when the header is present, delay * k
\* otherwise) and, when k < max_retries, attempt k + 1 is run.
C2_RateLimitNeverAborts ==
    \A i \in DOMAIN log :
        (IsVerifiedGet(i) /\ log[i].outcome = "429") =>
            /\ i < Len(log)
            /\ log[i + 1].type = "sleep"
            /\ log[i].retryAfter = NoHeader => log[i + 1].dur = delay * log[i].attempt
            /\ (log[i].retryAfter # NoHeader /\ ~int(log[i].retryAfter).error)
                   => log[i + 1].dur = int(log[i].retryAfter).value
            /\ (FetchReturned /\ log[i].attempt < max_retries)
                   => \E j \in (i + 1)..Len(log) :
                          IsGet(j) /\ log[j].attempt = log[i].attempt + 1

C4_RenderResultReturned ==
    (pc = "done" /\ selRet.set) =>
        /\ result.entries = selRet.entries
        /\ result.method = selRet.method

\* C5: a failed fetch returns the Fetcher's own reason: the 403 message or
\* the exhausted-attempts message.
C5_FetchReasonReturned ==
    (pc = "done" /\ html_content.isNone /\ fetcherLog \in {Forbidden, ExhaustedMsg})
        => (result.absent /\ result.method = fetcherLog)

\* C6: a GET answered with 200 is followed by static extraction of its body
\* and never by the fetch-failed result, whatever the body.
C6_Ok200IsExtracted ==
    (pc = "done" /\ \E i \in DOMAIN log : IsGet(i) /\ log[i].outcome = "200")
        => (staticOutcome # "none" /\ result.method # "Failed to fetch content")

\* C7: no exception leaves process_url, whatever the URL.
C7_NoFaultEscapes == pc # "raised"

\* C8: a result of process_url is a non-empty list with a success label or
\* None with a non-empty failure reason.
C8_ResultShape ==
    result.set =>
        \/ /\ ~result.absent
           /\ result.entries # <<>>
           /\ result.method \in SuccessLabels
        \/ /\ result.absent
           /\ result.entries = <<>>
           /\ result.method \notin SuccessLabels \cup {""}

\* the renderer's entries were returned under its label
C8_Witness ==
    /\ pc = "done"
    /\ ~result.absent
    /\ result.method = "Parsed with Selenium"
    /\ result.entries # <<>>

\* C9: every GET and every browser navigation targets the normalised URL.
C9_RequestsUseNormalizedUrl ==
    \A i \in DOMAIN log :
        log[i].type \in {"get", "nav"} =>
            /\ IsAbsolute(log[i].target)
            /\ log[i].target = _normalize_url(url).value

\* C10: every link entry of a result carries an absolute URL.
C10_LinksAbsolute ==
    result.set =>
        \A i \in DOMAIN result.entries :
            result.entries[i].kind = "link" => IsAbsolute(result.entries[i].url)

(***************************************************************************)
(* Properties of the retry loop                                             *)
(***************************************************************************)
Terminal == pc \in {"done", "raised"}
GetsOf(k) == {i \in DOMAIN log : IsGet(i) /\ log[i].attempt = k}
VerifiedGets == {i \in DOMAIN log : IsVerifiedGet(i)}
UnverifiedGets == {i \in DOMAIN log : IsGet(i) /\ ~log[i].verify}
AllGets == {i \in DOMAIN log : IsGet(i)}

\* steps left before process_url is over, at most
PcRank ==
    CASE pc = "start" -> 12
      [] pc = "attempt" -> 11
      [] pc = "ssl_retry" -> 10
      [] pc = "fetched" -> 9
      [] pc = "selenium_launch" -> 8
      [] pc = "selenium_get" -> 7
      [] pc = "selenium_wait" -> 6
      [] pc = "selenium_extract" -> 5
      [] pc = "selenium_finally" -> 4
      [] pc = "parse_ret" -> 3
      [] OTHER -> 0
Rank == PcRank + 2 * (max_retries - attempt)

\* C11: process_url terminates: every step brings it closer to its end, the
\* loop of fetch_content begins at most max_retries iterations whatever the
\* responses are, and no state before the end is stuck.
C11_Terminates ==
    /\ [][/\ Rank' < Rank
          /\ Rank' >= 0
          /\ attempt' <= max_retries
          /\ Cardinality(VerifiedGets)' <= max_retries]_vars
    /\ [](~Terminal => ENABLED Next)

\* all max_retries iterations ran, each ended by a different kind of failure
C11_Witness ==
    /\ pc = "done"
    /\ attempt = max_retries
    /\ fetcherLog = ExhaustedMsg
    /\ \E i, j, k \in DOMAIN log :
           /\ log[i].outcome = "429"
           /\ log[j].outcome = "RequestException"
           /\ IsGet(k) /\ ~log[k].verify

\* C12 (as amended): each attempt issues exactly one verified GET, so one
\* call issues at most max_retries verified GETs; an attempt whose verified
\* GET fails with a TLS error issues one more, unverified, GET.
C12_OneVerifiedGetPerAttempt ==
    /\ Cardinality(VerifiedGets) <= max_retries
    /\ \A k \in 1..max_retries :
           /\ Cardinality(GetsOf(k) \cap VerifiedGets) <= 1
           /\ (k <= attempt) => Cardinality(GetsOf(k) \cap VerifiedGets) = 1
           /\ Cardinality(GetsOf(k)) =
                  Cardinality({i \in GetsOf(k) : log[i].outcome = "SSLError"})
                  + Cardinality(GetsOf(k) \cap VerifiedGets)
                  - (IF pc = "ssl_retry" /\ k = attempt + 1 THEN 1 ELSE 0)
    /\ \A i \in AllGets : log[i].attempt \in 1..max_retries

\* a call that issued max_retries verified GETs and more GETs than that
C12_Witness ==
    /\ FetchReturned
    /\ Cardinality(VerifiedGets) = max_retries
    /\ Cardinality(AllGets) > max_retries

\* C12 (as stated): one call of fetch_content issues at most max_retries GETs.
C12_AtMostMaxRetriesGets == Cardinality(AllGets) <= max_retries

\* C15: a TLS failure of the verified GET of attempt k is followed at once by
\* exactly one unverified GET of the same URL; a 200 answer to it ends the
\* fetch with that body, and anything else leads to attempt k + 1 (or to the
\* end of the loop) with no sleep other than the next attempt's own delay.
C15_TlsRetryOnceThenFallThrough ==
    \A i \in DOMAIN log :
        (IsVerifiedGet(i) /\ log[i].outcome = "SSLError") =>
            LET k == log[i].attempt
            IN  /\ (i = Len(log)) <=> (pc = "ssl_retry" /\ attempt = k - 1)
                /\ i < Len(log) =>
                      /\ IsGet(i + 1) /\ ~log[i + 1].verify
                      /\ log[i + 1].attempt = k
                      /\ log[i + 1].target = log[i].target
                      /\ Cardinality(GetsOf(k)) = 2
                /\ (i < Len(log) /\ log[i + 1].outcome = "200") =>
                      /\ FetchReturned /\ ~html_content.isNone
                      /\ \A j \in (i + 2)..Len(log) : log[j].type = "nav"
                /\ (i < Len(log) /\ log[i + 1].outcome # "200") =>
                      /\ i + 1 = Len(log) =>
                            \/ pc = "attempt" /\ attempt = k
                            \/ /\ k = max_retries /\ html_content.isNone
                               /\ fetcherLog = ExhaustedMsg
                      /\ i + 1 < Len(log) =>
                            /\ log[i + 2] = SleepEv(k + 1, delay)
                            /\ IsVerifiedGet(i + 3) /\ log[i + 3].attempt = k + 1

\* the unverified GET of attempt 1 was refused and attempt 2 then succeeded
C15_Witness ==
    /\ pc = "fetched"
    /\ ~html_content.isNone
    /\ Len(log) = 5
    /\ log[2].outcome = "SSLError"
    /\ log[3].outcome = "403" /\ ~log[3].verify
    /\ log[5].outcome = "200" /\ log[5].attempt = 2

\* C16: a network failure of attempt k is followed by a sleep of delay * k and
\* then by attempt k + 1; max_retries such failures end the fetch with None
\* after exactly max_retries requests; an unexpected failure ends it with
\* None at once.
C16_NetworkFailureBacksOff ==
    /\ \A i \in DOMAIN log :
           (IsVerifiedGet(i) /\ log[i].outcome = "RequestException") =>
               /\ i < Len(log)
               /\ log[i + 1] = SleepEv(log[i].attempt, delay * log[i].attempt)
               /\ (FetchReturned /\ log[i].attempt < max_retries)
                      => \E j \in (i + 2)..Len(log) :
                             IsVerifiedGet(j) /\ log[j].attempt = log[i].attempt + 1
    /\ (FetchReturned /\ \A k \in 1..max_retries : \E i \in GetsOf(k) :
                             log[i].outcome = "RequestException")
           => /\ html_content.isNone
              /\ fetcherLog = ExhaustedMsg
              /\ Cardinality(AllGets) = max_retries
    /\ \A i \in DOMAIN log :
           (IsVerifiedGet(i) /\ log[i].outcome = "Exception") =>
               /\ i = Len(log)
               /\ FetchReturned
               /\ html_content.isNone

\* three network failures in a row, with growing sleeps, exhausted the loop
C16_Witness ==
    /\ pc = "done"
    /\ html_content.isNone
    /\ \A k \in 1..max_retries : \E i \in GetsOf(k) :
           /\ log[i].outcome = "RequestException"
           /\ log[i + 1].dur = delay * k

\* C20: an unverified GET is issued only directly after the TLS failure of
\* the verified GET of the same attempt, at most once per attempt; one fetch
\* issues at most 2 * max_retries GETs; every verified GET directly follows a
\* sleep of delay of its attempt.
C20_UnverifiedOnlyAfterTlsFailure ==
    /\ \A i \in UnverifiedGets :
           /\ i > 1
           /\ IsVerifiedGet(i - 1)
           /\ log[i - 1].outcome = "SSLError"
           /\ log[i - 1].attempt = log[i].attempt
    /\ \A k \in 1..max_retries : Cardinality(GetsOf(k) \cap UnverifiedGets) <= 1
    /\ Cardinality(AllGets) <= 2 * max_retries
    /\ \A i \in VerifiedGets :
           /\ i > 1
           /\ log[i - 1] = SleepEv(log[i].attempt, delay)

\* every attempt needed its unverified GET: 2 * max_retries GETs were issued
C20_Witness ==
    /\ FetchReturned
    /\ Cardinality(AllGets) = 2 * max_retries
    /\ Cardinality(UnverifiedGets) = max_retries

\* the static extractor has run on html_content and the markup was accepted
StaticRan == staticOutcome # "none" /\ ~html_content.rejected
\* some candidate node of html_content lies in an article, main or
\* content-class container
HasTieredCandidate ==
    \E i \in DOMAIN html_content.nodes : html_content.nodes[i].regions # {}

\* C13: the static extractor filters the whole document exactly when no
\* candidate lies in an article, main or content-class container, and then
\* returns the non-empty result labelled "Parsed with BeautifulSoup"; when
\* some candidate lies in a container, only the container passes' candidates
\* are filtered, even if none of them survives.
C13_FallbackIffNoTieredCandidates ==
    StaticRan =>
        LET nodes == html_content.nodes
            used == IF HasTieredCandidate
                    THEN Filter(TieredContent(nodes), url)
                    ELSE Filter(nodes, url)
        IN  /\ staticOutcome = "fault" <=> used.error
            /\ staticOutcome = "empty" <=> ~used.error /\ used.entries = <<>>
            /\ staticOutcome = "entries" =>
                   /\ pc \in {"parse_ret", "done"}
                   /\ parseRet = Pair(FALSE, used.entries, "Parsed with BeautifulSoup")
                   /\ pc = "done" => result = parseRet

\* the only candidate in a container is filtered out, a candidate outside
\* would have survived, and the static extractor came back empty
C13_Witness ==
    /\ pc = "done"
    /\ StaticRan
    /\ HasTieredCandidate
    /\ Filter(html_content.nodes, url).entries # <<>>
    /\ ~Filter(html_content.nodes, url).error
    /\ staticOutcome = "empty"

\* every text entry of the pair is longer than MinTextLen
LongTexts(pair) ==
    \A i \in DOMAIN pair.entries :
        pair.entries[i].kind = "text" => pair.entries[i].text > MinTextLen
\* every text entry of the pair is the trimmed text of a non-link node of the
\* document, and that trimmed text is longer than MinTextLen
TextsFrom(pair, doc) ==
    \A i \in DOMAIN pair.entries :
        pair.entries[i].kind = "text" =>
            \E j \in DOMAIN doc.nodes :
                /\ doc.nodes[j].name # "a"
                /\ doc.nodes[j].core = pair.entries[i].text
                /\ doc.nodes[j].core > MinTextLen

\* C14: every text entry the static or the rendered extractor produces, and
\* every text entry of a result of process_url, is the trimmed text of a
\* non-link node and is longer than 20 characters.
C14_TextEntriesLongerThanTwenty ==
    /\ LongTexts(selRet) /\ LongTexts(parseRet) /\ LongTexts(result)
    /\ staticOutcome = "entries" => TextsFrom(parseRet, html_content)
    /\ pc = "selenium_finally" => TextsFrom(selRet, page_source)
    /\ pc = "done" /\ result.method = "Parsed with BeautifulSoup" =>
           TextsFrom(result, html_content)

\* a result of the static extractor with a text entry from a document that
\* also holds a padded node of exactly MinTextLen characters in a container
C14_Witness ==
    /\ pc = "done"
    /\ result.method = "Parsed with BeautifulSoup"
    /\ \E i \in DOMAIN result.entries : result.entries[i].kind = "text"
    /\ \E j \in DOMAIN html_content.nodes :
           /\ html_content.nodes[j].name # "a"
           /\ html_content.nodes[j].core = MinTextLen
           /\ html_content.nodes[j].pad > 0
           /\ html_content.nodes[j].regions # {}

\* the container passes in the order parse runs them
Passes == <<"article", "main">> \o ContentDivs
\* pass p reaches node i of html_content
Reaches(p, i) == Passes[p] \in html_content.nodes[i].regions
\* the filter keeps node n
Kept(n) ==
    IF n.name = "a" THEN n.hasHref /\ n.href # <<>> ELSE n.core > MinTextLen
\* the entry of a kept node
EntryOf(n) ==
    IF n.name = "a" THEN LinkEntry(n.core, urljoin(url, n.href).value)
    ELSE TextEntry(n.core)
\* the (pass, node) visits that yield an entry
Visits ==
    {v \in (DOMAIN Passes) \X (DOMAIN html_content.nodes) :
        Reaches(v[1], v[2]) /\ Kept(html_content.nodes[v[2]])}
\* visit v comes before visit w: an earlier pass, or the same pass and an
\* earlier node of the document
Before(v, w) == v[1] < w[1] \/ (v[1] = w[1] /\ v[2] < w[2])
\* the position of the entry of visit v in the result
PositionOf(v) == 1 + Cardinality({w \in Visits : Before(w, v)})

\* C18: when a candidate lies in a container, the static entries are one
\* entry per (pass, node) visit that the filter keeps, ordered by pass
\* (article, main, then each content-class container) and by document order
\* inside a pass; a node reached by several passes has one entry per pass.
C18_DiscoveryOrder ==
    StaticRan /\ staticOutcome = "entries" /\ HasTieredCandidate =>
        /\ Len(parseRet.entries) = Cardinality(Visits)
        /\ \A v \in Visits :
               parseRet.entries[PositionOf(v)] = EntryOf(html_content.nodes[v[2]])
        /\ pc = "done" => result.entries = parseRet.entries

\* a link in main followed by a heading in both article and main: the
\* heading comes first (article pass), then the link and the heading again
\* (main pass)
C18_Witness ==
    /\ pc = "done"
    /\ staticOutcome = "entries"
    /\ Len(html_content.nodes) = 2
    /\ html_content.nodes[1].name = "a"
    /\ html_content.nodes[1].regions = {"main"}
    /\ html_content.nodes[2].regions = {"article", "main"}
    /\ Len(result.entries) = 3
    /\ result.entries[1] = TextEntry(html_content.nodes[2].core)
    /\ result.entries[2].kind = "link"
    /\ result.entries[3] = result.entries[1]

(***************************************************************************)
(* Properties of the rendered extractor                                     *)
(***************************************************************************)
\* parse_with_selenium is between the launch of the browser and its return
InSelenium ==
    pc \in {"selenium_get", "selenium_wait", "selenium_extract", "selenium_finally"}
\* parse_with_selenium has returned a pair
SeleniumReturned == pc \in {"parse_ret", "done"} /\ selRet.set

\* C17: a browser is open only inside parse_with_selenium, and once
\* parse_with_selenium has returned (entries, navigation failure, wait
\* timeout or extraction failure) the browser it launched has been quit.
C17_BrowserReleasedOnEveryExit ==
    /\ driver = "open" => InSelenium
    /\ InSelenium => driver = "open"
    /\ SeleniumReturned => driver = "quit"
    /\ driver = "quit" => SeleniumReturned

\* parse_with_selenium has returned from a wait timeout and process_url is
\* done
C17_Witness ==
    /\ pc = "done"
    /\ selRet = Pair(FALSE, <<>>, "Selenium parsing error: timeout")
    /\ driver = "quit"

\* C19: the pair the rendered extractor computes from an accepted page is
\* the filter loop of the static extractor applied to every candidate node
\* of that page, in document order, with the same base URL: the entries
\* labelled "Parsed with Selenium", or no entries when urljoin raises.
C19_RenderedEqualsStaticFallback ==
    pc = "selenium_finally" /\ ~page_source.isNone /\ ~page_source.rejected =>
        LET pass4 == Filter(page_source.nodes, url)
        IN  IF pass4.error
            THEN selRet.entries = <<>> /\ selRet.method \notin SuccessLabels
            ELSE selRet = Pair(FALSE, pass4.entries, "Parsed with Selenium")

\* a rendered page with a candidate inside a container and one outside, both
\* of which yield an entry
C19_Witness ==
    /\ pc = "selenium_finally"
    /\ Len(page_source.nodes) = 2
    /\ page_source.nodes[1].regions = {}
    /\ page_source.nodes[2].regions # {}
    /\ Len(selRet.entries) = 2
    /\ selRet.entries[1].kind = "link"
    /\ selRet.entries[2].kind = "text"
====
